---- MODULE Spec2Model ----
(***************************************************************************)
(* Cloud Quiz AI (src/app.py): a Streamlit script over a Postgres store.   *)
(* Every user interaction re-runs the script from the top for the browser  *)
(* session that caused it.  The store is shared by all sessions; the only  *)
(* per-session state is st.session_state and the locals of the run.        *)
(*                                                                         *)
(* A run is modelled from its first statement (init_db) to its end.  A     *)
(* run's database round trips are separate steps wherever another          *)
(* session's committed write can fall between them.                        *)
(***************************************************************************)
EXTENDS Integers, Sequences, FiniteSets, TLC

\* ------------------------------------------------------------- bounds
MaxPapers == 2
MaxQuestions == 3
MaxResults == 2
MaxRecords == 2
MaxExam == 3

Sessions == {1, 2}

\* ------------------------------------------------------------- values
PyNone == "None"

\* Strings whose characters matter (correct_option) are sequences of
\* one-character strings: "B" is <<"B">>.  The values below are not strings:
\* a JSON null, a pandas NaN cell, a radio nobody has clicked.
JNull == <<"null">>
NaN == <<"NaN">>
NoSelection == <<"unselected">>
OptionLetters == <<"A", "B", "C", "D">>
Options == {<<OptionLetters[i]>> : i \in 1..Len(OptionLetters)}

TEACHER_PASS == "CuteBoy"
STUDENT_PASS == "StupidKid"
Passwords == {TEACHER_PASS, STUDENT_PASS, "guess"}

Titles == {"Math101", "Physics"}
Names == {"", "Ann"}

IsString(v) == v \notin {JNull, NaN}

\* str.upper() on one character.
UpperChar(c) ==
    CASE c = "a" -> "A"
      [] c = "b" -> "B"
      [] c = "c" -> "C"
      [] c = "d" -> "D"
      [] c = "e" -> "E"
      [] c = "n" -> "N"
      [] OTHER -> c

Upper(s) == [i \in 1..Len(s) |-> UpperChar(s[i])]

RECURSIVE LStrip(_)
LStrip(s) == IF s # <<>> /\ Head(s) = " " THEN LStrip(Tail(s)) ELSE s

RECURSIVE RStrip(_)
RStrip(s) ==
    IF s # <<>> /\ s[Len(s)] = " " THEN RStrip(SubSeq(s, 1, Len(s) - 1)) ELSE s

\* str.strip()
Strip(s) == RStrip(LStrip(s))

\* str(x) of a CSV cell: a float NaN prints as "nan".
Str(v) == IF v = NaN THEN <<"n", "a", "n">> ELSE v

\* dict.get(key, default)
Get(q, k, default) == IF k \in DOMAIN q THEN q[k] ELSE default

\* ------------------------------------------------------------- store
EmptyDb ==
    [question_papers |-> {}, questions |-> {}, exam_results |-> {},
     seq_p |-> 0, seq_q |-> 0, seq_r |-> 0]

PaperIds(d) == {p.id : p \in d.question_papers}

\* REFERENCES question_papers(id): a child row must name an existing paper.
ForeignKeyOk(d, paper_id) == paper_id \in PaperIds(d)

\* INSERT INTO question_papers (title): the SERIAL id is the next sequence value.
InsertPaper(d, t) ==
    [d EXCEPT !.seq_p = @ + 1,
              !.question_papers = @ \cup {[id |-> d.seq_p + 1, title |-> t]}]

QuestionRow(id, paper_id, q, oa, ob, oc, od, co) ==
    [id |-> id, paper_id |-> paper_id, question_text |-> q,
     option_a |-> oa, option_b |-> ob, option_c |-> oc, option_d |-> od,
     correct_option |-> co]

\* INSERT INTO questions: nextval is taken before the foreign key is checked,
\* so a refused insert still advances the sequence.
InsertQuestion(d, paper_id, q, oa, ob, oc, od, co) ==
    IF ForeignKeyOk(d, paper_id)
    THEN [d EXCEPT !.seq_q = @ + 1,
                   !.questions = @ \cup
                       {QuestionRow(d.seq_q + 1, paper_id, q, oa, ob, oc, od, co)}]
    ELSE [d EXCEPT !.seq_q = @ + 1]

ResultRow(id, paper_id, name, score, total, percentage) ==
    [id |-> id, paper_id |-> paper_id, student_name |-> name, score |-> score,
     total_questions |-> total, percentage |-> percentage]

\* Seeded fault: one row per student and paper, overwritten by a resubmission.
UpsertResult(d, paper_id, name, score, total, percentage) ==
    IF ~ForeignKeyOk(d, paper_id) THEN [d EXCEPT !.seq_r = @ + 1]
    ELSE IF \E r \in d.exam_results : r.paper_id = paper_id /\ r.student_name = name
    THEN [d EXCEPT !.exam_results =
             {IF r.paper_id = paper_id /\ r.student_name = name
              THEN ResultRow(r.id, paper_id, name, score, total, percentage)
              ELSE r : r \in @}]
    ELSE [d EXCEPT !.seq_r = @ + 1,
                   !.exam_results = @ \cup
                       {ResultRow(d.seq_r + 1, paper_id, name, score, total, percentage)}]

\* INSERT INTO exam_results: a new row on every call.
InsertResult(d, paper_id, name, score, total, percentage) ==
    IF ForeignKeyOk(d, paper_id)
    THEN [d EXCEPT !.seq_r = @ + 1,
                   !.exam_results = @ \cup
                       {ResultRow(d.seq_r + 1, paper_id, name, score, total, percentage)}]
    ELSE [d EXCEPT !.seq_r = @ + 1]

\* Seeded fault: exam_results declared without ON DELETE CASCADE.
DeletePaperKeepsResults(d, id) ==
    [d EXCEPT !.question_papers = {p \in @ : p.id # id},
              !.questions = {q \in @ : q.paper_id # id}]

\* DELETE FROM question_papers WHERE id=:id, with ON DELETE CASCADE on both
\* child tables.
DeletePaperRow(d, id) ==
    [d EXCEPT !.question_papers = {p \in @ : p.id # id},
              !.questions = {q \in @ : q.paper_id # id},
              !.exam_results = {r \in @ : r.paper_id # id}]

DeleteQuestionRow(d, id) == [d EXCEPT !.questions = {q \in @ : q.id # id}]

UpdateQuestionRow(d, id, nq, noa, nob, noc, nod, nco) ==
    [d EXCEPT !.questions =
        {IF q.id = id
         THEN QuestionRow(q.id, q.paper_id, nq, noa, nob, noc, nod, nco)
         ELSE q : q \in @}]

\* The rows of a set, as the sequence a query returns them in, by ascending id.
RECURSIVE ById(_)
ById(rows) ==
    IF rows = {} THEN <<>>
    ELSE LET r == CHOOSE x \in rows : \A y \in rows : x.id <= y.id
         IN <<r>> \o ById(rows \ {r})

\* SELECT * FROM questions WHERE paper_id=:pid
QuestionsOf(d, paper_id) == ById({q \in d.questions : q.paper_id = paper_id})

\* ------------------------------------------------------------- scoring
\* st.radio(..., ["A","B","C","D"]) with no index argument: the first option
\* is preselected, so the widget returns "A" until the student clicks.
Radio(click) == IF click = NoSelection THEN <<OptionLetters[1]>> ELSE click

\* Lines 312-316: ans[r['id']] = st.radio(...) for every row of qdf.
Answers(q, clicks) == [id \in {q[i].id : i \in 1..Len(q)} |-> Radio(clicks[id])]

\* Lines 321-325: the scoring loop over qdf.
RECURSIVE CountCorrect(_, _, _)
CountCorrect(q, a, i) ==
    IF i > Len(q) THEN 0
    ELSE (IF q[i].id \in DOMAIN a /\ a[q[i].id] = q[i].correct_option THEN 1 ELSE 0)
         + CountCorrect(q, a, i + 1)

\* Seeded fault: the loop misses the first row.
ScoreSkipsFirst(q, a) == CountCorrect(q, a, 2)

Score(q, a) == CountCorrect(q, a, 1)

\* round(x, 2) of the non-negative rational n/d, in hundredths: to the nearest
\* hundredth, a tie to the even one.
RoundHalfEven(n, d) ==
    LET f == n \div d
        r == n % d
    IN IF 2 * r > d \/ (2 * r = d /\ f % 2 = 1) THEN f + 1 ELSE f

\* Line 327: round((score/total)*100, 2), in hundredths of a percent.
Percentage(sc, tot) == RoundHalfEven(sc * 10000, tot)

\* Seeded fault: the empty check left out.
QdfNeverEmpty(q) == FALSE

\* Line 304: qdf.empty
QdfEmpty(q) == Len(q) = 0

\* ------------------------------------------------------------- session exit
\* Seeded fault: every statement committed as it is executed.
RollbackKeepsWork(base, work) == work

\* with conn.session as s: the statements of the block run in one
\* transaction on a working copy; s.commit() publishes it, and leaving the
\* block on an exception closes the session, which rolls the transaction back.
\* Sequence values drawn by a rolled-back transaction are not given back.
Rollback(base, work) ==
    [base EXCEPT !.seq_p = work.seq_p, !.seq_q = work.seq_q, !.seq_r = work.seq_r]

SessionExit(base, tx) == IF tx.ok THEN tx.db ELSE Rollback(base, tx.db)

\* The statement (1 = the paper's INSERT, i + 1 = the i-th question's INSERT,
\* n + 2 = the commit) at which the database raises; 0 when none does.
FailPoints(n) == 0..(n + 2)

\* ------------------------------------------------------------- AI ingestion
\* response.text as a sequence of tokens: an opening json fence, a bare fence,
\* a JSON array (with its parsed value), or text that is not JSON.  A fence is
\* three backquotes; the json fence is followed by the word json.
FenceJson == [t |-> "fence-json", v |-> <<>>]
Fence == [t |-> "fence", v |-> <<>>]
Junk == [t |-> "junk", v |-> <<>>]
JsonArray(rows) == [t |-> "json", v |-> rows]

ParseFailed == [ok |-> FALSE, rows |-> <<>>]

\* Lines 85-87: the fence stripping.
StripFences(text) ==
    LET a == IF text # <<>> /\ Head(text).t = "fence-json" THEN Tail(text)
             ELSE IF text # <<>> /\ Head(text).t = "fence" THEN Tail(text)
             ELSE text
    IN IF a # <<>> /\ a[Len(a)].t = "fence" THEN SubSeq(a, 1, Len(a) - 1) ELSE a

\* Seeded fault: a parser that stops at the end of the first JSON value.
JsonLoadsPrefix(text) ==
    IF Len(text) >= 1 /\ text[1].t = "json"
    THEN [ok |-> TRUE, rows |-> text[1].v]
    ELSE ParseFailed

\* Line 89: json.loads raises unless the text is exactly one JSON value.
JsonLoads(text) ==
    IF Len(text) = 1 /\ text[1].t = "json"
    THEN [ok |-> TRUE, rows |-> text[1].v]
    ELSE ParseFailed

\* Lines 59-93: parse_questions_with_gemini.  None (ParseFailed) when the API
\* key is missing, the model call raises, or the text does not parse.
ParseQuestions(resp) ==
    IF ~resp.key THEN ParseFailed
    ELSE IF resp.raises THEN ParseFailed
    ELSE JsonLoads(StripFences(resp.text))

\* Lines 62 and 92: the st.error each failure shows.
ParseError(resp) ==
    IF ~resp.key THEN "Google API Key not found in secrets."
    ELSE "AI Error"

\* Line 128: the test of data is false for None and for an empty list.
Truthy(d) == d.ok /\ Len(d.rows) > 0

\* Lines 142-145: .strip().upper(), then the first character if longer than one.
NormalizeCorrect(co) ==
    LET u == Upper(Strip(co))
    IN IF Len(u) > 1 THEN <<u[1]>> ELSE u

\* Lines 134-148: the loop over the parsed records, from record i on, on the
\* working copy w.  q.get(...).strip() raises AttributeError when the value
\* is not a string.
RECURSIVE AIInsertAll(_, _, _, _, _)
AIInsertAll(w, new_id, rows, i, failAt) ==
    IF i > Len(rows) THEN [ok |-> TRUE, db |-> w, err |-> ""]
    ELSE LET q == rows[i]
             q_text == Get(q, "question_text", "Question text missing")
             oa == Get(q, "option_a", "-")
             ob == Get(q, "option_b", "-")
             oc == Get(q, "option_c", "-")
             od == Get(q, "option_d", "-")
             raw == Get(q, "correct_option", <<"A">>)
         IN IF ~IsString(raw) THEN [ok |-> FALSE, db |-> w, err |-> "AttributeError"]
            ELSE IF failAt = i + 1
            THEN [ok |-> FALSE, db |-> w, err |-> "OperationalError"]
            ELSE AIInsertAll(
                     InsertQuestion(w, new_id, q_text, oa, ob, oc, od,
                                    NormalizeCorrect(raw)),
                     new_id, rows, i + 1, failAt)

\* Lines 129-151: the block's statements, up to and including s.commit().
AITransaction(d, t, rows, failAt) ==
    IF failAt = 1 THEN [ok |-> FALSE, db |-> d, err |-> "OperationalError"]
    ELSE LET w == InsertPaper(d, t)
             r == AIInsertAll(w, w.seq_p, rows, 1, failAt)
         IN IF r.ok /\ failAt = Len(rows) + 2
            THEN [ok |-> FALSE, db |-> r.db, err |-> "OperationalError"]
            ELSE r

\* ------------------------------------------------------------- CSV upload
Columns ==
    {"question_text", "option_a", "option_b", "option_c", "option_d",
     "correct_option"}

\* Lines 176-178: the loop over the frame's rows.  row['...'] raises KeyError
\* when the frame lacks the column.
RECURSIVE CsvInsertAll(_, _, _, _, _)
CsvInsertAll(w, nid, df, i, failAt) ==
    IF i > Len(df.rows) THEN [ok |-> TRUE, db |-> w, err |-> ""]
    ELSE LET row == df.rows[i]
         IN IF ~(Columns \subseteq df.columns)
            THEN [ok |-> FALSE, db |-> w, err |-> "KeyError"]
            ELSE IF failAt = i + 1
            THEN [ok |-> FALSE, db |-> w, err |-> "OperationalError"]
            ELSE CsvInsertAll(
                     InsertQuestion(w, nid, row.question_text, row.option_a,
                                    row.option_b, row.option_c, row.option_d,
                                    Upper(Str(row.correct_option))),
                     nid, df, i + 1, failAt)

\* Lines 173-179.
CsvTransaction(d, t, df, failAt) ==
    IF failAt = 1 THEN [ok |-> FALSE, db |-> d, err |-> "OperationalError"]
    ELSE LET w == InsertPaper(d, t)
             r == CsvInsertAll(w, w.seq_p, df, 1, failAt)
         IN IF r.ok /\ failAt = Len(df.rows) + 2
            THEN [ok |-> FALSE, db |-> r.db, err |-> "OperationalError"]
            ELSE r

\* ------------------------------------------------------------- state
VARIABLES
    db,            \* the committed store
    user_role,     \* st.session_state.user_role
    student_name,  \* st.session_state.student_name
    pc,            \* where each session's current run is
    errors,        \* the failures the current run has reported
    title,         \* the title typed into the form being handled
    response,      \* what the model call did
    data,          \* the parsed model response
    df,            \* the uploaded CSV, read
    pid,           \* student_page: the chosen paper's id
    qdf,           \* student_page: the questions read for that paper
    picked,        \* student_page: what the student clicked, per question id
    ans,           \* student_page: what the radios returned, per question id
    score,         \* student_page: the locals of the scoring block
    total,
    percentage

vars ==
    <<db, user_role, student_name, pc, errors, title, response, data, df, pid,
      qdf, picked, ans, score, total, percentage>>

locals == <<title, response, data, df, pid, qdf, picked, ans, score, total, percentage>>

NoResponse == [key |-> FALSE, raises |-> FALSE, text |-> <<>>]
NoFrame == [readable |-> FALSE, columns |-> {}, rows |-> <<>>]

\* The state of the sessions before their first run, over the store d with
\* each session's role given.
InitWith(d, roles) ==
    /\ db = d
    /\ user_role = roles
    /\ student_name = [s \in Sessions |-> ""]
    /\ pc = [s \in Sessions |-> "idle"]
    /\ errors = [s \in Sessions |-> {}]
    /\ title = [s \in Sessions |-> ""]
    /\ response = [s \in Sessions |-> NoResponse]
    /\ data = [s \in Sessions |-> ParseFailed]
    /\ df = [s \in Sessions |-> NoFrame]
    /\ pid = [s \in Sessions |-> 0]
    /\ qdf = [s \in Sessions |-> <<>>]
    /\ picked = [s \in Sessions |-> <<>>]
    /\ ans = [s \in Sessions |-> <<>>]
    /\ score = [s \in Sessions |-> 0]
    /\ total = [s \in Sessions |-> 0]
    /\ percentage = [s \in Sessions |-> 0]

\* Lines 98-99: nobody is logged in; the tables are empty.
Init == InitWith(EmptyDb, [s \in Sessions |-> PyNone])

\* st.error(...), or an uncaught exception, which Streamlit prints on the page.
Report(s, m) == errors' = [errors EXCEPT ![s] = @ \cup {m}]

\* The run ends; its locals die with it.
DropLocals(s) ==
    /\ title' = [title EXCEPT ![s] = ""]
    /\ response' = [response EXCEPT ![s] = NoResponse]
    /\ data' = [data EXCEPT ![s] = ParseFailed]
    /\ df' = [df EXCEPT ![s] = NoFrame]
    /\ pid' = [pid EXCEPT ![s] = 0]
    /\ qdf' = [qdf EXCEPT ![s] = <<>>]
    /\ picked' = [picked EXCEPT ![s] = <<>>]
    /\ ans' = [ans EXCEPT ![s] = <<>>]
    /\ score' = [score EXCEPT ![s] = 0]
    /\ total' = [total EXCEPT ![s] = 0]
    /\ percentage' = [percentage EXCEPT ![s] = 0]

Finish(s) ==
    /\ pc' = [pc EXCEPT ![s] = "idle"]
    /\ DropLocals(s)

\* st.rerun(): the run stops and what it drew is replaced by the next run's.
Rerun(s) ==
    /\ pc' = [pc EXCEPT ![s] = "idle"]
    /\ errors' = [errors EXCEPT ![s] = {}]
    /\ DropLocals(s)

\* ------------------------------------------------------------- script top
\* Lines 365-397: the page drawn for a role.
PageOf(role) ==
    IF role = "Teacher" THEN "teacher"
    ELSE IF role = "Student" THEN "student"
    ELSE "login"

\* Lines 51-54: init_db() inside try/except.  ok = FALSE is init_db raising
\* (the database unreachable): the except branch reports the error and the
\* script goes on to line 56 and below.
AfterInit(ok, role) == PageOf(role)

Start(s, Oks) ==
    /\ pc[s] = "idle"
    /\ \E ok \in Oks :
        /\ errors' = [errors EXCEPT ![s] = IF ok THEN {} ELSE {"DB Init Error"}]
        /\ pc' = [pc EXCEPT ![s] = AfterInit(ok, user_role[s])]
    /\ UNCHANGED <<db, user_role, student_name, locals>>

\* Lines 370-386: the two login buttons.
Login(s) ==
    /\ pc[s] = "login"
    /\ \E role \in {"Teacher", "Student"}, pw \in Passwords :
        IF pw = (IF role = "Teacher" THEN TEACHER_PASS ELSE STUDENT_PASS)
        THEN /\ user_role' = [user_role EXCEPT ![s] = role]
             /\ Rerun(s)
        ELSE /\ Report(s, "Incorrect Password!")
             /\ Finish(s)
             /\ UNCHANGED user_role
    /\ UNCHANGED <<db, student_name>>

\* Lines 101-103 and 389-392: the sidebar's Logout button.
Logout(s) ==
    /\ pc[s] \in {"teacher", "student"}
    /\ user_role' = [user_role EXCEPT ![s] = PyNone]
    /\ Rerun(s)
    /\ UNCHANGED <<db, student_name>>

\* A run in which no button was pressed: the page is drawn and the run ends.
View(s) ==
    /\ pc[s] \in {"login", "teacher"}
    /\ Finish(s)
    /\ UNCHANGED <<db, user_role, student_name, errors>>

\* ------------------------------------------------------------- teacher page
Texts == {"2+2?"}
OptionTexts == {"4"}

\* Lines 125-127: Generate Exam: the form's title and the blocking model call.
AICreate(s, Ts, Responses) ==
    /\ pc[s] = "teacher"
    /\ db.seq_p < MaxPapers
    /\ \E t \in Ts, resp \in Responses :
        /\ title' = [title EXCEPT ![s] = t]
        /\ response' = [response EXCEPT ![s] = resp]
        /\ data' = [data EXCEPT ![s] = ParseQuestions(resp)]
        /\ errors' = [errors EXCEPT ![s] =
                IF ParseQuestions(resp).ok THEN @ ELSE @ \cup {ParseError(resp)}]
    /\ pc' = [pc EXCEPT ![s] = "ai_parsed"]
    /\ UNCHANGED <<db, user_role, student_name, df, pid, qdf, picked, ans, score,
                   total, percentage>>

\* Lines 128-152: the session block, run if data is truthy.  An exception in
\* the block is not caught.
AIIngest(s) ==
    /\ pc[s] = "ai_parsed"
    /\ IF ~Truthy(data[s])
       THEN UNCHANGED <<db, errors>>
       ELSE /\ db.seq_p < MaxPapers
            /\ db.seq_q + Len(data[s].rows) <= MaxQuestions
            /\ \E failAt \in FailPoints(Len(data[s].rows)) :
                LET tx == AITransaction(db, title[s], data[s].rows, failAt)
                IN /\ db' = SessionExit(db, tx)
                   /\ errors' = [errors EXCEPT ![s] =
                           IF tx.ok THEN @ ELSE @ \cup {tx.err}]
    /\ Finish(s)
    /\ UNCHANGED <<user_role, student_name>>

\* Lines 155-163: Manual Create.
ManualCreate(s) ==
    /\ pc[s] = "teacher"
    /\ db.seq_p < MaxPapers
    /\ \E t \in Titles : db' = InsertPaper(db, t)
    /\ Rerun(s)
    /\ UNCHANGED <<user_role, student_name>>

\* Lines 170-172: Upload: the form's title and pd.read_csv(f), whose exception
\* the handler's except branch reports.
CsvUpload(s, Ts, Frames) ==
    /\ pc[s] = "teacher"
    /\ db.seq_p < MaxPapers
    /\ \E t \in Ts, f \in Frames :
        IF ~f.readable
        THEN /\ Report(s, "ParserError")
             /\ Finish(s)
        ELSE /\ title' = [title EXCEPT ![s] = t]
             /\ df' = [df EXCEPT ![s] = f]
             /\ pc' = [pc EXCEPT ![s] = "csv_read"]
             /\ UNCHANGED <<errors, response, data, pid, qdf, picked, ans, score,
                            total, percentage>>
    /\ UNCHANGED <<db, user_role, student_name>>

\* Lines 173-181: the session block; its exception is caught and reported.
CsvIngest(s) ==
    /\ pc[s] = "csv_read"
    /\ db.seq_p < MaxPapers
    /\ db.seq_q + Len(df[s].rows) <= MaxQuestions
    /\ \E failAt \in FailPoints(Len(df[s].rows)) :
        LET tx == CsvTransaction(db, title[s], df[s], failAt)
        IN /\ db' = SessionExit(db, tx)
           /\ errors' = [errors EXCEPT ![s] =
                   IF tx.ok THEN @ ELSE @ \cup {tx.err}]
    /\ Finish(s)
    /\ UNCHANGED <<user_role, student_name>>

\* Lines 184-197: Edit/Delete Papers, one form per paper row.
DeletePaper(s) ==
    /\ pc[s] = "teacher"
    /\ \E row \in db.question_papers, check \in BOOLEAN :
        IF check
        THEN /\ db' = DeletePaperRow(db, row.id)
             /\ Rerun(s)
        ELSE /\ Finish(s)
             /\ UNCHANGED <<db, errors>>
    /\ UNCHANGED <<user_role, student_name>>

PaperTitles(d) == {p.title : p \in d.question_papers}

\* Lines 205-208: opts maps each title to an id; the frame is ordered by id
\* DESC, so of two papers with one title the older one wins.
TeacherPid(d, sel_label) ==
    CHOOSE i \in PaperIds(d) :
        /\ [id |-> i, title |-> sel_label] \in d.question_papers
        /\ \A p \in d.question_papers : p.title = sel_label => i <= p.id

\* Lines 211-223: Manage Questions, Add.
AddQuestion(s, Cos) ==
    /\ pc[s] = "teacher"
    /\ db.seq_q < MaxQuestions
    /\ \E sel_label \in PaperTitles(db), q \in Texts, o \in OptionTexts, co \in Cos :
        db' = InsertQuestion(db, TeacherPid(db, sel_label), q, o, o, o, o, co)
    /\ Finish(s)
    /\ UNCHANGED <<user_role, student_name, errors>>

\* Line 234: ["A","B","C","D"].index(r['correct_option']) raises ValueError on
\* any other value, which ends the run before that row's form and every later
\* row's form is reached.
FormReached(q, i) == \A j \in 1..i : q[j].correct_option \in Options

\* Lines 225-244: Manage Questions, Edit: one form per question row; Delete?
\* wins over the edited fields.
EditQuestion(s, Cos) ==
    /\ pc[s] = "teacher"
    /\ \E sel_label \in PaperTitles(db) :
        LET rows == QuestionsOf(db, TeacherPid(db, sel_label))
        IN \E i \in 1..Len(rows), nq \in Texts, nco \in Cos, dchk \in BOOLEAN :
            /\ FormReached(rows, i)
            /\ db' = IF dchk
                     THEN DeleteQuestionRow(db, rows[i].id)
                     ELSE UpdateQuestionRow(db, rows[i].id, nq, rows[i].option_a,
                              rows[i].option_b, rows[i].option_c, rows[i].option_d, nco)
    /\ Rerun(s)
    /\ UNCHANGED <<user_role, student_name>>

\* ------------------------------------------------------------- student page
\* Line 301: the first row with the chosen title, the frame ordered by id DESC.
StudentPid(d, sel) ==
    CHOOSE i \in PaperIds(d) :
        /\ [id |-> i, title |-> sel] \in d.question_papers
        /\ \A p \in d.question_papers : p.title = sel => i >= p.id

\* Lines 287-301: the name box, the papers query, the exam selectbox.
StudentChoose(s) ==
    /\ pc[s] = "student"
    /\ \E name_input \in Names \cup {student_name[s]} :
        IF name_input = ""
        THEN /\ Finish(s)
             /\ UNCHANGED student_name
        ELSE /\ student_name' = [student_name EXCEPT ![s] = name_input]
             /\ IF db.question_papers = {}
                THEN Finish(s)
                ELSE /\ \E sel \in PaperTitles(db) :
                            pid' = [pid EXCEPT ![s] = StudentPid(db, sel)]
                     /\ pc' = [pc EXCEPT ![s] = "exam"]
                     /\ UNCHANGED <<title, response, data, df, qdf, picked, ans,
                                    score, total, percentage>>
    /\ UNCHANGED <<db, user_role, errors>>

\* Lines 303-306: the questions query and the empty check.
StudentQuestions(s) ==
    /\ pc[s] = "exam"
    /\ LET q == QuestionsOf(db, pid[s])
       IN IF QdfEmpty(q)
          THEN Finish(s)
          ELSE /\ qdf' = [qdf EXCEPT ![s] = q]
               /\ pc' = [pc EXCEPT ![s] = "form"]
               /\ UNCHANGED <<title, response, data, df, pid, picked, ans, score,
                              total, percentage>>
    /\ UNCHANGED <<db, user_role, student_name, errors>>

QuestionIds(q) == {q[i].id : i \in 1..Len(q)}

\* Lines 311-327: the form's radios, the submit button, the scoring block.
\* score/total with total = 0 raises ZeroDivisionError, which is not caught.
StudentForm(s, Clicks) ==
    /\ pc[s] = "form"
    /\ \E clicks \in [QuestionIds(qdf[s]) -> Clicks], submitted \in BOOLEAN :
        IF ~submitted
        THEN /\ Finish(s)
             /\ UNCHANGED errors
        ELSE IF Len(qdf[s]) = 0
        THEN /\ Report(s, "ZeroDivisionError")
             /\ Finish(s)
        ELSE /\ picked' = [picked EXCEPT ![s] = clicks]
             /\ ans' = [ans EXCEPT ![s] = Answers(qdf[s], clicks)]
             /\ score' = [score EXCEPT ![s] = Score(qdf[s], Answers(qdf[s], clicks))]
             /\ total' = [total EXCEPT ![s] = Len(qdf[s])]
             /\ percentage' = [percentage EXCEPT ![s] =
                    Percentage(Score(qdf[s], Answers(qdf[s], clicks)), Len(qdf[s]))]
             /\ pc' = [pc EXCEPT ![s] = "scored"]
             /\ UNCHANGED <<errors, title, response, data, df, pid, qdf>>
    /\ UNCHANGED <<db, user_role, student_name>>

\* Lines 329-353: the INSERT into exam_results.  A paper deleted since the
\* questions were read makes the insert fail its foreign key; the exception
\* is not caught.
StudentInsert(s) ==
    /\ pc[s] = "scored"
    /\ db.seq_r < MaxResults
    /\ db' = InsertResult(db, pid[s], student_name[s], score[s], total[s],
                          percentage[s])
    /\ errors' = [errors EXCEPT ![s] =
            IF ForeignKeyOk(db, pid[s]) THEN @ ELSE @ \cup {"IntegrityError"}]
    /\ Finish(s)
    /\ UNCHANGED <<user_role, student_name>>

\* ------------------------------------------------------------- inputs
Widget == Options \cup {NoSelection}

FullRecord(co) ==
    [question_text |-> "Q1", option_a |-> "w", option_b |-> "x", option_c |-> "y",
     option_d |-> "z", correct_option |-> co]

Without(q, k) == [x \in DOMAIN q \ {k} |-> q[x]]

\* What a model may put under correct_option: "b", " c", "ab", "", "e", null.
CorrectReturned == {<<"b">>, <<" ", "c">>, <<"a", "b">>, <<>>, <<"e">>, JNull}

\* Records with every key, with one key missing, with no key at all.
AIRecords ==
    {FullRecord(co) : co \in CorrectReturned}
        \cup {Without(FullRecord(<<"D">>), k) : k \in Columns}
        \cup {[k \in {} |-> ""]}

RECURSIVE SeqsUpTo(_, _)
SeqsUpTo(S, n) ==
    IF n = 0 THEN {<<>>}
    ELSE LET shorter == SeqsUpTo(S, n - 1)
         IN shorter \cup {Append(x, e) : x \in {y \in shorter : Len(y) = n - 1}, e \in S}

\* The array alone, or between a json fence and a closing fence.
Wrap(rows) == {<<JsonArray(rows)>>, <<FenceJson, JsonArray(rows), Fence>>}

\* No API key; the call raising; text that is not JSON, alone, after an array,
\* inside fences; an array in bare fences; arrays of up to MaxRecords records.
ResponsesOver(Records) ==
    {[key |-> FALSE, raises |-> FALSE, text |-> <<>>],
     [key |-> TRUE, raises |-> TRUE, text |-> <<>>],
     [key |-> TRUE, raises |-> FALSE, text |-> <<Junk>>],
     [key |-> TRUE, raises |-> FALSE, text |-> <<JsonArray(<<>>), Junk>>],
     [key |-> TRUE, raises |-> FALSE, text |-> <<Fence, Junk, Fence>>],
     [key |-> TRUE, raises |-> FALSE, text |-> <<Fence, JsonArray(<<>>), Fence>>]}
        \cup {[key |-> TRUE, raises |-> FALSE, text |-> tx] :
                 tx \in UNION {Wrap(rows) : rows \in SeqsUpTo(Records, MaxRecords)}}

CsvRow(co) ==
    [question_text |-> "Q1", option_a |-> "w", option_b |-> "x", option_c |-> "y",
     option_d |-> "z", correct_option |-> co]

\* What a CSV may hold under correct_option: "b", "bc", "A", an empty cell.
CorrectCells == {<<"b">>, <<"b", "c">>, <<"A">>, NaN}

FramesOver(Cells) ==
    {[readable |-> FALSE, columns |-> {}, rows |-> <<>>]}
        \cup {[readable |-> TRUE, columns |-> Columns, rows |-> r] :
                 r \in SeqsUpTo({CsvRow(c) : c \in Cells}, MaxRecords)}
        \cup {[readable |-> TRUE, columns |-> Columns \ {"correct_option"},
               rows |-> r] :
                 r \in SeqsUpTo({Without(CsvRow(<<"A">>), "correct_option")}, MaxRecords)}

\* ------------------------------------------------------------- the program
Next ==
    \E s \in Sessions :
        \/ Start(s, BOOLEAN)
        \/ Login(s)
        \/ Logout(s)
        \/ View(s)
        \/ AICreate(s, Titles, ResponsesOver(AIRecords))
        \/ AIIngest(s)
        \/ ManualCreate(s)
        \/ CsvUpload(s, Titles, FramesOver(CorrectCells))
        \/ CsvIngest(s)
        \/ DeletePaper(s)
        \/ AddQuestion(s, Options)
        \/ EditQuestion(s, Options)
        \/ StudentChoose(s)
        \/ StudentQuestions(s)
        \/ StudentForm(s, Widget)
        \/ StudentInsert(s)

Spec == Init /\ [][Next]_vars

\* ------------------------------------------------------------- startup
\* Two browsers from their first run on: the script top, the login page and
\* the sidebar.
NextBoot ==
    \E s \in Sessions :
        \/ Start(s, BOOLEAN)
        \/ Login(s)
        \/ Logout(s)
        \/ View(s)
        \/ ManualCreate(s)

SpecBoot == Init /\ [][NextBoot]_vars

\* ------------------------------------------------------------- imports
\* One teacher, logged in, building papers by every route the page offers.
Teacher == 1

InitImport ==
    InitWith(EmptyDb, [s \in Sessions |-> IF s = Teacher THEN "Teacher" ELSE PyNone])

NextImport ==
    \/ Start(Teacher, {TRUE})
    \/ AICreate(Teacher, {"Math101"}, ResponsesOver(AIRecords))
    \/ AIIngest(Teacher)
    \/ CsvUpload(Teacher, {"Math101"}, FramesOver(CorrectCells))
    \/ CsvIngest(Teacher)

SpecImport == InitImport /\ [][NextImport]_vars

\* ------------------------------------------------------------- authoring
\* One teacher using all four ways of writing a question, on a few inputs.
NextAuthor ==
    \/ Start(Teacher, {TRUE})
    \/ AICreate(Teacher, {"Math101"},
                ResponsesOver({FullRecord(<<"b">>), FullRecord(<<>>)}))
    \/ AIIngest(Teacher)
    \/ ManualCreate(Teacher)
    \/ CsvUpload(Teacher, {"Math101"}, FramesOver({<<"b">>, <<"b", "c">>}))
    \/ CsvIngest(Teacher)
    \/ AddQuestion(Teacher, Options)
    \/ EditQuestion(Teacher, Options)

SpecAuthor == InitImport /\ [][NextAuthor]_vars

\* ------------------------------------------------------------- exams
\* One teacher and one student, both logged in, acting in any order.
Student == 2

InitExam ==
    InitWith(EmptyDb, [s \in Sessions |-> IF s = Teacher THEN "Teacher" ELSE "Student"])

NextExam ==
    \/ Start(Teacher, {TRUE})
    \/ Start(Student, {TRUE})
    \/ ManualCreate(Teacher)
    \/ DeletePaper(Teacher)
    \/ AddQuestion(Teacher, {<<"B">>})
    \/ EditQuestion(Teacher, {<<"B">>})
    \/ StudentChoose(Student)
    \/ StudentQuestions(Student)
    \/ StudentForm(Student, {NoSelection, <<"B">>})
    \/ StudentInsert(Student)

SpecExam == InitExam /\ [][NextExam]_vars

\* ------------------------------------------------------------- scoring
\* A student sitting any one paper of up to MaxExam questions.
ExamDb(cos) ==
    [question_papers |-> {[id |-> 1, title |-> "Math101"]},
     questions |-> {QuestionRow(i, 1, "2+2?", "3", "4", "5", "6", cos[i]) :
                       i \in 1..Len(cos)},
     exam_results |-> {},
     seq_p |-> 1, seq_q |-> Len(cos), seq_r |-> 0]

InitScore ==
    \E cos \in SeqsUpTo(Options, MaxExam) \ {<<>>} :
        InitWith(ExamDb(cos), [s \in Sessions |-> "Student"])

NextScore ==
    \/ Start(Student, {TRUE})
    \/ StudentChoose(Student)
    \/ StudentQuestions(Student)
    \/ StudentForm(Student, Widget)
    \/ StudentInsert(Student)

SpecScore == InitScore /\ [][NextScore]_vars

\* ------------------------------------------------------------- properties
Abs(x) == IF x < 0 THEN -x ELSE x

\* The correct_option of the question with this id among the rows q.
CorrectOf(q, id) == q[CHOOSE i \in 1..Len(q) : q[i].id = id].correct_option

Failures == {"AttributeError", "OperationalError", "KeyError"}

\* C1: submitting an exam over a non-empty question set Q with the submitted
\* letters m stores a result row whose score is the number of questions of Q
\* whose letter in m equals the question's correct_option, whose
\* total_questions is |Q| and whose percentage is score / total * 100 to the
\* nearest hundredth; changing one more entry of m to the correct letter never
\* lowers the score.
C1_ScoreStored ==
    [][\A s \in Sessions :
        /\ (pc[s] = "form" /\ pc'[s] = "scored") =>
            LET Q == QuestionIds(qdf[s])
                m == ans'[s]
            IN /\ Q # {}
               /\ DOMAIN m = Q
               /\ score'[s] = Cardinality({id \in Q : m[id] = CorrectOf(qdf[s], id)})
               /\ total'[s] = Cardinality(Q)
               /\ 2 * Abs(percentage'[s] * total'[s] - 10000 * score'[s]) <= total'[s]
               /\ \A id \in Q :
                    Score(qdf[s], [m EXCEPT ![id] = CorrectOf(qdf[s], id)]) >= score'[s]
        /\ (pc[s] = "scored" /\ pc'[s] = "idle" /\ pid[s] \in PaperIds(db)) =>
            db'.exam_results = db.exam_results \cup
                {[id |-> db.seq_r + 1, paper_id |-> pid[s],
                  student_name |-> student_name[s], score |-> score[s],
                  total_questions |-> total[s], percentage |-> percentage[s]]}
      ]_vars

\* Two of three right is stored as 66.67.
C1_Witness ==
    \E r \in db.exam_results :
        r.score = 2 /\ r.total_questions = 3 /\ r.percentage = 6667

\* C2: a question the student made no selection for counts as incorrect,
\* whatever its correct_option; submitting without answering anything scores 0.
C2_UnansweredIsWrong ==
    \A s \in Sessions :
        pc[s] = "scored" =>
            score[s] = Cardinality({id \in QuestionIds(qdf[s]) :
                            /\ picked[s][id] # NoSelection
                            /\ picked[s][id] = CorrectOf(qdf[s], id)})

\* C3: every stored question's correct_option is one of "A", "B", "C", "D".
C3_CorrectOptionIsLetter ==
    \A q \in db.questions : q.correct_option \in Options

\* C4: AI ingestion of records with missing fields, or with anything under
\* correct_option, never raises, and stores for each record its question_text
\* or "Question text missing", each option or "-", and the correct_option
\* upper-cased and cut to its first character (blanks around it aside), or
\* "A" when it is missing.
C4_Stored(q) ==
    LET raw == IF "correct_option" \in DOMAIN q THEN q.correct_option ELSE <<"A">>
        up == Upper(Strip(raw))
    IN [question_text |->
            IF "question_text" \in DOMAIN q THEN q.question_text
            ELSE "Question text missing",
        option_a |-> IF "option_a" \in DOMAIN q THEN q.option_a ELSE "-",
        option_b |-> IF "option_b" \in DOMAIN q THEN q.option_b ELSE "-",
        option_c |-> IF "option_c" \in DOMAIN q THEN q.option_c ELSE "-",
        option_d |-> IF "option_d" \in DOMAIN q THEN q.option_d ELSE "-",
        correct_option |-> IF up = <<>> THEN <<>> ELSE <<up[1]>>]

C4_IngestionNeverRaises ==
    [][\A s \in Sessions :
        (pc[s] = "ai_parsed" /\ pc'[s] = "idle" /\ Truthy(data[s])) =>
            /\ "AttributeError" \notin errors'[s]
            /\ "OperationalError" \notin errors'[s] =>
                \A i \in 1..Len(data[s].rows) :
                    \E row \in db'.questions :
                        /\ row.id = db.seq_q + i
                        /\ [k \in Columns |-> row[k]] = C4_Stored(data[s].rows[i])
      ]_vars

\* C5: once paper P is deleted no question row and no result row has
\* paper_id = P, in that state and in every later one, and the delete leaves
\* the rows of every other paper as they were.
C5_NoRowsOfDeleted ==
    \A P \in 1..db.seq_p :
        P \notin PaperIds(db) =>
            /\ \A q \in db.questions : q.paper_id # P
            /\ \A r \in db.exam_results : r.paper_id # P

C5_OthersUnchanged ==
    \A P \in PaperIds(db) \ PaperIds(db') :
        /\ db'.question_papers = {p \in db.question_papers : p.id # P}
        /\ db'.questions = {q \in db.questions : q.paper_id # P}
        /\ db'.exam_results = {r \in db.exam_results : r.paper_id # P}

C5_CascadeDelete == []C5_NoRowsOfDeleted /\ [][C5_OthersUnchanged]_vars

\* A student holds the questions of a paper that has since been deleted, and
\* the other paper still has its questions and its results.
C5_Witness ==
    /\ pc[Student] = "form"
    /\ pid[Student] \notin PaperIds(db)
    /\ db.questions # {}
    /\ db.exam_results # {}

\* C6: an import (AI ingestion or CSV upload) of N records is all or nothing:
\* if a statement or a record's step fails, the committed papers and
\* questions are what they were; otherwise they gained the paper and its N
\* questions.
C6_RecordFails(s) ==
    IF pc[s] = "ai_parsed"
    THEN \E i \in 1..Len(data[s].rows) :
            /\ "correct_option" \in DOMAIN data[s].rows[i]
            /\ data[s].rows[i].correct_option = JNull
    ELSE df[s].rows # <<>> /\ ~(Columns \subseteq df[s].columns)

C6_ImportAtomic ==
    [][\A s \in Sessions :
        (/\ pc[s] \in {"ai_parsed", "csv_read"}
         /\ pc'[s] = "idle"
         /\ pc[s] = "ai_parsed" => Truthy(data[s])) =>
            LET N == IF pc[s] = "ai_parsed" THEN Len(data[s].rows)
                     ELSE Len(df[s].rows)
                P == db.seq_p + 1
                unchanged == /\ db'.question_papers = db.question_papers
                             /\ db'.questions = db.questions
                imported == /\ db'.question_papers = db.question_papers \cup
                                   {[id |-> P, title |-> title[s]]}
                            /\ db.questions \subseteq db'.questions
                            /\ {q.id : q \in db'.questions \ db.questions}
                                   = (db.seq_q + 1)..(db.seq_q + N)
                            /\ \A q \in db'.questions \ db.questions : q.paper_id = P
            IN /\ IF errors'[s] \cap Failures # {} THEN unchanged ELSE imported
               /\ C6_RecordFails(s) => unchanged
      ]_vars

\* A batch failed after a question was inserted, and nothing of it is stored.
C6_Witness ==
    /\ pc[Teacher] = "idle"
    /\ errors[Teacher] \cap Failures # {}
    /\ db.seq_q >= 1
    /\ db.questions = {}
    /\ db.question_papers = {}

\* C7: when the API key is missing, the model call raises, or the response is
\* not valid JSON, an error is shown and the handler ends with the papers and
\* questions tables as they were.
C7_BadResponse(r) ==
    \/ ~r.key
    \/ r.raises
    \/ \E i \in 1..Len(r.text) : r.text[i].t = "junk"

C7_FailedIngestionAborts ==
    [][\A s \in Sessions :
        /\ (pc[s] = "teacher" /\ pc'[s] = "ai_parsed" /\ C7_BadResponse(response'[s])) =>
            /\ errors'[s] \cap {"Google API Key not found in secrets.", "AI Error"} # {}
            /\ db' = db
        /\ (pc[s] = "ai_parsed" /\ pc'[s] # "ai_parsed" /\ C7_BadResponse(response[s])) =>
            /\ pc'[s] = "idle"
            /\ errors'[s] = errors[s]
            /\ db'.question_papers = db.question_papers
            /\ db'.questions = db.questions
      ]_vars

\* The handler of a response that did not parse has ended: the error is on
\* the page and no paper exists.
C7_Witness ==
    /\ pc[Teacher] = "idle"
    /\ "AI Error" \in errors[Teacher]
    /\ db.question_papers = {}
    /\ db.questions = {}

\* C8: a completed submission adds exactly one result row and changes no
\* other; a result row is never modified, and is removed only when its paper
\* is deleted.
C8_ResultsAppendOnly ==
    [][LET old == db.exam_results
           new == db'.exam_results
       IN /\ \A r \in old \ new :
                r.paper_id \in PaperIds(db) \ PaperIds(db')
          /\ \A r \in new \ old : \A o \in old : o.id # r.id
          /\ \A s \in Sessions :
                (pc[s] = "scored" /\ pc'[s] = "idle"
                     /\ "IntegrityError" \notin errors'[s]) =>
                    /\ old \subseteq new
                    /\ Cardinality(new \ old) = 1
      ]_vars

\* The same student has two rows for the same paper.
C8_Witness ==
    \E r1, r2 \in db.exam_results :
        /\ r1.id # r2.id
        /\ r1.paper_id = r2.paper_id
        /\ r1.student_name = r2.student_name
        /\ r1.score = r2.score

\* C9: whatever the teacher deletes while a student sits an exam, the scoring
\* block never divides by a total of 0 and no result row has
\* total_questions = 0.
C9_TotalNeverZero ==
    /\ \A s \in Sessions :
        /\ pc[s] \in {"form", "scored"} => Len(qdf[s]) > 0
        /\ pc[s] = "scored" => total[s] > 0
        /\ "ZeroDivisionError" \notin errors[s]
    /\ \A r \in db.exam_results : r.total_questions > 0

\* A submission has been scored over questions the teacher has since deleted.
C9_Witness ==
    /\ pc[Student] = "scored"
    /\ total[Student] > 0
    /\ QuestionsOf(db, pid[Student]) = <<>>

\* C10: a run in which init_db failed shows the error and stops: it draws
\* none of the login, teacher and student pages.
C10_InitFailureAborts ==
    \A s \in Sessions :
        "DB Init Error" \in errors[s] => pc[s] \notin {"login", "teacher", "student"}
====
